---------------------------- MODULE Spec2Model ----------------------------
(***************************************************************************)
(* Medicine reminder app (medicine_reminder_streamlit.py): the store file  *)
(* med_data.json, the APScheduler job set, the UI handlers, the watchdog   *)
(* thread and the reminder jobs, as a state machine.                       *)
(*                                                                         *)
(* Threads: "ui" (the Streamlit script run handling one widget event at a  *)
(* time), "wd" (scheduler_watchdog) and the scheduler's pool threads       *)
(* (Workers) that run job_func.  Each step of a thread is one access to    *)
(* shared state (the file, the job set) together with the local            *)
(* computation that follows it.  The module is taken as loaded once: one   *)
(* `scheduler` global, one lock, one watchdog thread.                      *)
(*                                                                         *)
(* Strings the code inspects (times of day, the comma separated form       *)
(* field) are sequences of one-character strings, so that split, strip and *)
(* int are computed and not assumed.                                       *)
(***************************************************************************)
EXTENDS Integers, Sequences, FiniteSets, TLC

(***************************************************************************)
(* Bounds of the model.                                                    *)
(***************************************************************************)
MaxMeds == 1        \* medicines ever added (uuid4 ids 1..MaxMeds)
MaxFirings == 1     \* reminder firings ever started (uuid4 entry ids)
MaxTicks == 1       \* clock instants that pass
MaxMedsSeq == 2     \* medicines ever added under the sequential schedule
MaxTicksDay == 3    \* clock instants that pass when a second day is reached

Workers == {"w1"}                  \* scheduler pool threads running job_func
WorkersPair == {"w1", "w2"}        \* the pool where two callbacks run at once
Threads == {"ui", "wd"} \cup WorkersPair

(***************************************************************************)
(* Text.                                                                   *)
(***************************************************************************)
Digits == {"0", "1", "2", "3", "4", "5", "6", "7", "8", "9"}

DigitVal(c) ==
    CASE c = "0" -> 0 [] c = "1" -> 1 [] c = "2" -> 2 [] c = "3" -> 3
      [] c = "4" -> 4 [] c = "5" -> 5 [] c = "6" -> 6 [] c = "7" -> 7
      [] c = "8" -> 8 [] c = "9" -> 9

\* str.split(sep): the pieces between the separators, empty pieces included
RECURSIVE SplitOn(_, _)
SplitOn(s, sep) ==
    IF \A i \in 1..Len(s) : s[i] # sep
    THEN <<s>>
    ELSE LET i == CHOOSE n \in 1..Len(s) :
                      s[n] = sep /\ \A q \in 1..(n - 1) : s[q] # sep
         IN  <<SubSeq(s, 1, i - 1)>> \o SplitOn(SubSeq(s, i + 1, Len(s)), sep)

\* str.strip(): leading and trailing blanks removed
RECURSIVE Strip(_)
Strip(s) ==
    IF s = << >> THEN s
    ELSE IF Head(s) = " " THEN Strip(Tail(s))
    ELSE IF s[Len(s)] = " " THEN Strip(SubSeq(s, 1, Len(s) - 1))
    ELSE s

\* int(s) succeeds on an optionally blank-padded run of digits
IsInt(s) ==
    LET u == Strip(s) IN Len(u) > 0 /\ \A i \in 1..Len(u) : u[i] \in Digits

RECURSIVE DigitsVal(_)
DigitsVal(u) ==
    IF u = << >> THEN 0
    ELSE 10 * DigitsVal(SubSeq(u, 1, Len(u) - 1)) + DigitVal(u[Len(u)])

IntOf(s) == DigitsVal(Strip(s))

\* times = [t.strip() for t in times_input.split(',') if t.strip()]
RECURSIVE NonEmptyStripped(_)
NonEmptyStripped(parts) ==
    IF parts = << >> THEN << >>
    ELSE LET t == Strip(Head(parts))
         IN  (IF t = << >> THEN << >> ELSE <<t>>) \o NonEmptyStripped(Tail(parts))

SplitTimes(times_input) == NonEmptyStripped(SplitOn(times_input, ","))

\* hour, minute = map(int, t.split(':')) and CronTrigger(hour=, minute=):
\* ValueError unless exactly two integer fields, hour in 0..23, minute in 0..59
ParseTime(t) ==
    LET parts == SplitOn(t, ":")
        ok == /\ Len(parts) = 2
              /\ IsInt(parts[1])
              /\ IsInt(parts[2])
              /\ IntOf(parts[1]) \in 0..23
              /\ IntOf(parts[2]) \in 0..59
    IN  IF ok THEN [ok |-> TRUE, hm |-> <<IntOf(parts[1]), IntOf(parts[2])>>]
        ELSE [ok |-> FALSE, hm |-> <<0, 0>>]

TimeValid(t) == ParseTime(t).ok

(***************************************************************************)
(* Inputs.                                                                 *)
(***************************************************************************)
T0800 == <<"0", "8", ":", "0", "0">>
T0900 == <<"0", "9", ":", "0", "0">>
T2599 == <<"2", "5", ":", "9", "9">>
TNoColon == <<"0", "9", "0", "0">>
T800 == <<"8", ":", "0", "0">>

Names == {"Aspirin"}
Doses == {"100mg"}
Dates == {<<"today", "today+30">>}

\* the form's "Times" field in the concurrent specification
TimesInputs == {T0800, T2599}
\* with two medicines at the same time of day, and over two days
TimesInputsPair == {T0800}
\* one time, the same entry twice, one time of day spelled in two ways
TimesInputsRepeat ==
    { T0800,
      T0800 \o <<",">> \o T0800,
      T0800 \o <<",", " ">> \o T800 }
\* and in the sequential one
TimesInputsSeq ==
    { T0800,
      T0900,
      T0800 \o <<",", " ">> \o T0900,
      T0800 \o <<",">> \o T0800,
      T2599,
      T0800 \o <<",">> \o TNoColon }

\* the times of day the wall clock passes through, in order, every day
DayTimes == << <<8, 0>>, <<9, 0>> >>
ClockHM(k) == DayTimes[((k - 1) % Len(DayTimes)) + 1]
\* the day of clock instant k, counted from the day the app started
Day(k) == (k - 1) \div Len(DayTimes)

\* start and end date of the form as day numbers: the window holds today and
\* tomorrow, starts tomorrow, ends today, or is inverted
DatesDay == {<<0, 1>>, <<1, 1>>, <<0, 0>>, <<1, 0>>}


(***************************************************************************)
(* State.                                                                  *)
(***************************************************************************)
VARIABLES
    store,       \* the file med_data.json
    scheduler,   \* the module global `scheduler`: "None" or "running"
    jobs,        \* the scheduler's job store: job id -> [func, trigger]
    pending,     \* job runs submitted to the pool, not yet started
    now,         \* the wall clock: number of instants passed
    pc,          \* where each thread is
    op,          \* the operation a thread is in
    data,        \* each thread's local `data` (what load_data returned)
    k,           \* position of schedule_all_jobs' loops in the flattened list
    run,         \* the job a thread is running: [id, func]
    entry,       \* job_func's local `entry`
    exc,         \* the exception leaving the thread's operation
    speak,       \* outcome of synthesize_tts in the thread's current firing
    nextId,      \* uuid4() of the next medicine
    nextEntry,   \* uuid4() of the next history entry
    completed,   \* firings whose job_func has returned
    installed,   \* job ids that add_job has installed at some time
    created      \* BackgroundScheduler instances created and started

vars == <<store, scheduler, jobs, pending, now, pc, op, data, k, run, entry,
          exc, speak, nextId, nextEntry, completed, installed, created>>

shared == <<store, scheduler, jobs, pending, now>>
locals == <<op, data, k, run, entry, exc, speak>>
counters == <<nextId, nextEntry, completed, installed, created>>

\* ----- the store file ----------------------------------------------------
NoFile == [kind |-> "absent"]
Torn == [kind |-> "torn"]          \* opened for writing, content not yet there
Empty == [medicines |-> << >>, history |-> << >>]

Readable(f) == f.kind # "torn"

\* load_data(): the empty structure when the file is missing, else its
\* content; json.load raises on a file caught between open("w") and the dump
load_data(f) ==
    IF f.kind = "absent" THEN Empty
    ELSE [medicines |-> f.medicines, history |-> f.history]

\* save_data(data): the file content after the dump
save_data(d) ==
    [kind |-> "file", medicines |-> d.medicines, history |-> d.history]

Meds(f) == IF f.kind = "file" THEN f.medicines ELSE << >>
Hist(f) == IF f.kind = "file" THEN f.history ELSE << >>

\* ----- records -----------------------------------------------------------
NewMed(id, name, dose, times_input, dates) ==
    [id |-> id, name |-> name, dose |-> dose, times |-> SplitTimes(times_input),
     start_date |-> dates[1], end_date |-> dates[2]]

None == << >>
AudioPath(id) == <<"reminder_audio", id>>
Message(med) ==
    <<"Reminder: time to take your medicine ", med.name, ". Dose: ", med.dose>>
SpeakError == "gTTSError"

\* (a variant of job_entry that looks the medicine's name up in the data
\* loaded at fire time)
job_entry_reread(med, d, id, t) ==
    LET stored == {i \in 1..Len(d.medicines) : d.medicines[i].id = med.id}
    IN  [id |-> id,
         med_id |-> med.id,
         med_name |-> IF stored = {} THEN None
                      ELSE d.medicines[CHOOSE i \in stored : TRUE].name,
         time |-> t,
         message |-> Message(med)]

\* job_func's entry (lines 153-159), built after data = load_data() from the
\* med its closure holds
job_entry(med, d, id, t) ==
    [id |-> id,
     med_id |-> med.id,
     med_name |-> med.name,
     time |-> t,
     message |-> Message(med)]

NoRun == [id |-> <<0, << >> >>, func |-> [med |-> [id |-> 0]]]
NoEntry == [id |-> 0]

\* ----- the scheduler -----------------------------------------------------
NoJobs == [x \in {} |-> 0]

\* start_scheduler_if_needed(): create and start the scheduler once
start_scheduler_if_needed(sch) == IF sch = "None" THEN "running" ELSE sch

\* (a variant of instances_started that creates a scheduler at every call)
instances_started_unguarded(sch, n) == n + 1

\* start_scheduler_if_needed(): BackgroundScheduler() and start() run when
\* the global is None (lines 120-122); n instances were created before
instances_started(sch, n) == IF sch = "None" THEN n + 1 ELSE n

\* (a variant of clear_jobs that removes nothing)
clear_jobs_skipped(sch, j) == j

\* clear_jobs(): remove_all_jobs() when there is a scheduler
clear_jobs(sch, j) == IF sch # "None" THEN NoJobs ELSE j

\* make_reminder_job(med): job_func closed over this med
make_reminder_job(med) == [med |-> med]

\* (a variant of job_id that leaves the time out of the key)
job_id_without_time(med, t) == <<med.id, << >> >>

\* job_id = f"reminder-{med['id']}-{t}"
job_id(med, t) == <<med.id, t>>

\* scheduler.add_job(func, trigger, id=job_id, replace_existing=True)
add_job(j, med, t) ==
    LET id == job_id(med, t)
        job == [func |-> make_reminder_job(med), trigger |-> ParseTime(t).hm]
    IN  [x \in DOMAIN j \cup {id} |-> IF x = id THEN job ELSE j[x]]

\* for med in medicines: for t in med.times -- the iterations in order
RECURSIVE Flatten(_)
Flatten(meds) ==
    IF meds = << >> THEN << >>
    ELSE LET m == Head(meds)
         IN  [i \in 1..Len(m.times) |-> <<m, m.times[i]>>] \o Flatten(Tail(meds))

IdsOf(meds) == {meds[i].id : i \in 1..Len(meds)}

\* [m for m in medicines if m['id'] != id]
RECURSIVE Without(_, _)
Without(meds, id) ==
    IF meds = << >> THEN << >>
    ELSE (IF Head(meds).id # id THEN <<Head(meds)>> ELSE << >>)
             \o Without(Tail(meds), id)

(***************************************************************************)
(* Init: the module has been imported; the watchdog thread has started.    *)
(***************************************************************************)
\* where a thread is between operations: the script waits for a widget
\* event, the watchdog is at the top of its loop, a pool thread is idle
Rest(th) ==
    IF th = "ui" THEN "idle" ELSE IF th = "wd" THEN "sched_load" ELSE "free"

RestOp(th) == IF th = "wd" THEN "sweep" ELSE "none"

Init ==
    /\ store = NoFile
    /\ scheduler = "None"
    /\ jobs = NoJobs
    /\ pending = {}
    /\ now = 0
    /\ pc = [th \in Threads |-> Rest(th)]
    /\ op = [th \in Threads |-> RestOp(th)]
    /\ data = [th \in Threads |-> Empty]
    /\ k = [th \in Threads |-> 0]
    /\ run = [th \in Threads |-> NoRun]
    /\ entry = [th \in Threads |-> NoEntry]
    /\ exc = [th \in Threads |-> "none"]
    /\ speak = [th \in Threads |-> "none"]
    /\ nextId = 1
    /\ nextEntry = 1
    /\ completed = 0
    /\ installed = {}
    /\ created = 0

\* (a variant of Raise where the failure is dropped and the operation
\* returns as if it had succeeded)
Raise_swallowed(th, e) ==
    /\ pc' = [pc EXCEPT ![th] = "return"]
    /\ exc' = exc

\* an exception leaves the operation: schedule_all_jobs, job_func and the
\* handlers have no try of their own around load_data or the parse
Raise(th, e) ==
    /\ pc' = [pc EXCEPT ![th] = "except"]
    /\ exc' = [exc EXCEPT ![th] = e]

\* the operation returns to its caller
Return(th) == pc' = [pc EXCEPT ![th] = "return"]

\* (a variant of scheduler_watchdog without the try/except: an exception
\* ends the thread)
scheduler_watchdog_uncaught(outcome) ==
    IF outcome = "except" THEN "exited" ELSE "sched_load"

\* scheduler_watchdog's loop after schedule_all_jobs returned or raised:
\* `except Exception: pass`, then time_mod.sleep(60), then the next turn of
\* `while True` (lines 175-180)
scheduler_watchdog(outcome) == "sched_load"

\* After the operation.  ui: the script run ends (st.experimental_rerun()
\* after a delete, the end of the script, or Streamlit showing the uncaught
\* exception) and the next widget event is awaited.  wd: the loop goes on.
\* Pool thread: the executor logs a job's exception and goes idle.
Finish(th) ==
    /\ pc[th] \in {"return", "except"}
    /\ pc' = [pc EXCEPT ![th] =
                 IF th = "wd" THEN scheduler_watchdog(pc[th]) ELSE Rest(th)]
    /\ op' = [op EXCEPT ![th] = RestOp(th)]
    /\ data' = [data EXCEPT ![th] = Empty]
    /\ k' = [k EXCEPT ![th] = 0]
    /\ run' = [run EXCEPT ![th] = NoRun]
    /\ entry' = [entry EXCEPT ![th] = NoEntry]
    /\ exc' = [exc EXCEPT ![th] = "none"]
    /\ speak' = [speak EXCEPT ![th] = "none"]
    /\ UNCHANGED <<shared, counters>>


(***************************************************************************)
(* save_data, shared by the add form, the delete button and job_func.      *)
(***************************************************************************)
\* open(DATA_FILE, "w"): the file is truncated
SaveOpen(th) ==
    /\ pc[th] = "save_open"
    /\ store' = Torn
    /\ pc' = [pc EXCEPT ![th] = "save_write"]
    /\ UNCHANGED <<scheduler, jobs, pending, now, locals, counters>>

\* json.dump and close: the file holds the thread's `data`; then what follows
\* save_data in the caller: schedule_all_jobs() after the add form (line 216),
\* the rerun after the delete button (228), the return of job_func (170)
SaveWrite(th) ==
    /\ pc[th] = "save_write"
    /\ store' = save_data(data[th])
    /\ IF op[th] = "add"
       THEN pc' = [pc EXCEPT ![th] = "sched_load"]
       ELSE Return(th)
    /\ completed' = IF op[th] = "fire" THEN completed + 1 ELSE completed
    /\ UNCHANGED <<scheduler, jobs, pending, now, locals, nextId, nextEntry,
                   installed, created>>

(***************************************************************************)
(* schedule_all_jobs (lines 130-146), run by the ui and by the watchdog.   *)
(***************************************************************************)
\* data = load_data()
SchedLoad(th) ==
    /\ pc[th] = "sched_load"
    /\ IF Readable(store)
       THEN /\ data' = [data EXCEPT ![th] = load_data(store)]
            /\ pc' = [pc EXCEPT ![th] = "sched_clear"]
            /\ UNCHANGED exc
       ELSE /\ Raise(th, "JSONDecodeError")
            /\ UNCHANGED data
    /\ UNCHANGED <<shared, op, k, run, entry, speak, counters>>

\* clear_jobs()
SchedClear(th) ==
    /\ pc[th] = "sched_clear"
    /\ jobs' = clear_jobs(scheduler, jobs)
    /\ pc' = [pc EXCEPT ![th] = "sched_start"]
    /\ UNCHANGED <<store, scheduler, pending, now, locals, counters>>

\* start_scheduler_if_needed(); the loops end at once over no medicine times
SchedStart(th) ==
    /\ pc[th] = "sched_start"
    /\ scheduler' = start_scheduler_if_needed(scheduler)
    /\ created' = instances_started(scheduler, created)
    /\ IF Flatten(data[th].medicines) = << >>
       THEN Return(th) /\ UNCHANGED k
       ELSE /\ pc' = [pc EXCEPT ![th] = "sched_add"]
            /\ k' = [k EXCEPT ![th] = 1]
    /\ UNCHANGED <<store, jobs, pending, now, op, data, run, entry, exc, speak,
                   nextId, nextEntry, completed, installed>>

\* one iteration of the loops: parse t, build the trigger, add_job; a
\* malformed t raises ValueError out of schedule_all_jobs
SchedAdd(th) ==
    /\ pc[th] = "sched_add"
    /\ LET todo == Flatten(data[th].medicines)
           med == todo[k[th]][1]
           t == todo[k[th]][2]
       IN  IF TimeValid(t)
           THEN /\ jobs' = add_job(jobs, med, t)
                /\ installed' = installed \cup {job_id(med, t)}
                /\ k' = [k EXCEPT ![th] = k[th] + 1]
                /\ IF k[th] = Len(todo) THEN Return(th) ELSE UNCHANGED pc
                /\ UNCHANGED exc
           ELSE /\ Raise(th, "ValueError")
                /\ UNCHANGED <<jobs, k, installed>>
    /\ UNCHANGED <<store, scheduler, pending, now, op, data, run, entry, speak,
                   nextId, nextEntry, completed, created>>

(***************************************************************************)
(* The Streamlit script, one widget event at a time.                       *)
(***************************************************************************)
\* "Add / Update Medicine" submitted (lines 201-213): load, build, append
AddMedicine(name, dose, times_input, dates) ==
    /\ pc["ui"] = "idle"
    /\ op' = [op EXCEPT !["ui"] = "add"]
    /\ IF Readable(store)
       THEN /\ data' = [data EXCEPT !["ui"] =
                   [load_data(store) EXCEPT !.medicines =
                       Append(@, NewMed(nextId, name, dose, times_input, dates))]]
            /\ nextId' = nextId + 1
            /\ pc' = [pc EXCEPT !["ui"] = "save_open"]
            /\ UNCHANGED exc
       ELSE /\ Raise("ui", "JSONDecodeError")
            /\ UNCHANGED <<data, nextId>>
    /\ UNCHANGED <<shared, k, run, entry, speak, nextEntry, completed, installed,
                   created>>

\* "Delete <name>" clicked (lines 220-226): load, filter by id
DeleteMedicine(id) ==
    /\ pc["ui"] = "idle"
    /\ id < nextId
    /\ op' = [op EXCEPT !["ui"] = "delete"]
    /\ IF Readable(store)
       THEN /\ id \in IdsOf(load_data(store).medicines)
            /\ data' = [data EXCEPT !["ui"] =
                   [load_data(store) EXCEPT !.medicines = Without(@, id)]]
            /\ pc' = [pc EXCEPT !["ui"] = "save_open"]
            /\ UNCHANGED exc
       ELSE /\ Raise("ui", "JSONDecodeError")
            /\ UNCHANGED data
    /\ UNCHANGED <<shared, k, run, entry, speak, counters>>

\* "Start Scheduler" clicked (lines 232-234)
StartScheduler ==
    /\ pc["ui"] = "idle"
    /\ scheduler' = start_scheduler_if_needed(scheduler)
    /\ created' = instances_started(scheduler, created)
    /\ pc' = [pc EXCEPT !["ui"] = "sched_load"]
    /\ op' = [op EXCEPT !["ui"] = "start"]
    /\ UNCHANGED <<store, jobs, pending, now, data, k, run, entry, exc, speak,
                   nextId, nextEntry, completed, installed>>

\* "Force Run Next Reminder Now" clicked (lines 236-245): the first medicine's
\* job is made and called in the ui thread
TriggerNow ==
    /\ pc["ui"] = "idle"
    /\ nextEntry <= MaxFirings
    /\ op' = [op EXCEPT !["ui"] = "fire"]
    /\ IF Readable(store)
       THEN IF load_data(store).medicines # << >>
            THEN /\ run' = [run EXCEPT !["ui"] =
                        [id |-> NoRun.id,
                         func |-> make_reminder_job(Head(load_data(store).medicines))]]
                 /\ pc' = [pc EXCEPT !["ui"] = "job_load"]
                 /\ UNCHANGED exc
            ELSE Return("ui") /\ UNCHANGED <<run, exc>>
       ELSE Raise("ui", "JSONDecodeError") /\ UNCHANGED run
    /\ UNCHANGED <<shared, data, k, entry, speak, counters>>

(***************************************************************************)
(* job_func (lines 149-170), in a pool thread or in the ui thread.         *)
(***************************************************************************)
\* now, data = load_data(), entry = {...}
JobLoad(th) ==
    /\ pc[th] = "job_load"
    /\ IF Readable(store)
       THEN /\ data' = [data EXCEPT ![th] = load_data(store)]
            /\ entry' = [entry EXCEPT ![th] =
                   job_entry(run[th].func.med, load_data(store), nextEntry, now)]
            /\ nextEntry' = nextEntry + 1
            /\ pc' = [pc EXCEPT ![th] = "job_speak"]
            /\ UNCHANGED exc
       ELSE /\ Raise(th, "JSONDecodeError")
            /\ UNCHANGED <<data, entry, nextEntry>>
    /\ UNCHANGED <<shared, op, k, run, speak, nextId, completed, installed,
                   created>>

\* (a variant of WithAudio whose except branch forgets the error field)
WithAudioNoError(e, ok) ==
    [x \in DOMAIN e \cup {"audio"} |->
        IF x = "audio" THEN (IF ok THEN AudioPath(e.id) ELSE None) ELSE e[x]]

\* the entry after the try/except around synthesize_tts (lines 163-168)
WithAudio(e, ok) ==
    IF ok
    THEN [x \in DOMAIN e \cup {"audio"} |->
             IF x = "audio" THEN AudioPath(e.id) ELSE e[x]]
    ELSE [x \in DOMAIN e \cup {"audio", "error"} |->
             IF x = "audio" THEN None
             ELSE IF x = "error" THEN SpeakError ELSE e[x]]

\* synthesize_tts returns (ok) or raises; the entry is appended to the local
\* data (line 169)
JobSpeak(th, ok) ==
    /\ pc[th] = "job_speak"
    /\ speak' = [speak EXCEPT ![th] = IF ok THEN "ok" ELSE "failed"]
    /\ entry' = [entry EXCEPT ![th] = WithAudio(entry[th], ok)]
    /\ data' = [data EXCEPT ![th].history = Append(@, WithAudio(entry[th], ok))]
    /\ pc' = [pc EXCEPT ![th] = "save_open"]
    /\ UNCHANGED <<shared, op, k, run, exc, counters>>

(***************************************************************************)
(* The scheduler's timing thread and pool.                                 *)
(***************************************************************************)
Running == {run[w].id : w \in {x \in WorkersPair : pc[x] # "free"}}
PendingIds == {p.id : p \in pending}

\* (a variant of Due that skips a job outside its medicine's date window)
Due_in_window(n) ==
    {id \in DOMAIN jobs :
        /\ jobs[id].trigger = ClockHM(n)
        /\ id \notin Running \cup PendingIds
        /\ jobs[id].func.med.start_date <= Day(n)
        /\ Day(n) <= jobs[id].func.med.end_date}

\* the jobs due at clock instant n: those whose trigger matches and that have
\* no instance submitted or running (max_instances = 1)
Due(n) ==
    {id \in DOMAIN jobs :
        /\ jobs[id].trigger = ClockHM(n)
        /\ id \notin Running \cup PendingIds}

\* The clock reaches the next time of day; the timing thread submits the due
\* jobs to the pool.  Only a job that is in the job store at that instant is
\* due: a cron job added after the instant has its next run time on the next
\* day, so an occurrence that finds the job removed is not made up later.
Tick ==
    /\ now' = now + 1
    /\ pending' = pending \cup
           {[id |-> id, func |-> jobs[id].func] : id \in Due(now + 1)}
    /\ UNCHANGED <<store, scheduler, jobs, pc, locals, counters>>

\* a pool thread starts a submitted run
WorkerTake(w) ==
    /\ pc[w] = "free"
    /\ nextEntry <= MaxFirings
    /\ \E p \in pending :
          /\ pending' = pending \ {p}
          /\ run' = [run EXCEPT ![w] = p]
    /\ pc' = [pc EXCEPT ![w] = "job_load"]
    /\ op' = [op EXCEPT ![w] = "fire"]
    /\ UNCHANGED <<store, scheduler, jobs, now, data, k, entry, exc, speak,
                   counters>>

(***************************************************************************)
(* Specifications.                                                         *)
(***************************************************************************)
Next ==
    \/ /\ nextId <= MaxMeds
       /\ \E n \in Names, d \in Doses, ti \in TimesInputs, dt \in Dates :
             AddMedicine(n, d, ti, dt)
    \/ \E id \in 1..MaxMeds : DeleteMedicine(id)
    \/ StartScheduler
    \/ TriggerNow
    \/ \E th \in Threads : SaveOpen(th)
    \/ \E th \in Threads : SaveWrite(th)
    \/ \E th \in {"ui", "wd"} : SchedLoad(th)
    \/ \E th \in {"ui", "wd"} : SchedClear(th)
    \/ \E th \in {"ui", "wd"} : SchedStart(th)
    \/ \E th \in {"ui", "wd"} : SchedAdd(th)
    \/ \E th \in Workers \cup {"ui"} : JobLoad(th)
    \/ \E th \in Workers \cup {"ui"}, ok \in BOOLEAN : JobSpeak(th, ok)
    \/ now < MaxTicks /\ Tick
    \/ \E w \in Workers : WorkerTake(w)
    \/ \E th \in Threads : Finish(th)

Spec == Init /\ [][Next]_vars


(***************************************************************************)
(* The same steps under a sequential schedule: the ui handles an event     *)
(* only while the watchdog is at the top of its loop, and the watchdog     *)
(* sweeps only while the ui is idle; nothing fires.  Richer form inputs.   *)
(***************************************************************************)
WatchdogResting == pc["wd"] = "sched_load"
UiResting == pc["ui"] = "idle"
Alone(th) == IF th = "ui" THEN WatchdogResting ELSE UiResting

NextSeq ==
    \/ /\ WatchdogResting
       /\ nextId <= MaxMedsSeq
       /\ \E n \in Names, d \in Doses, ti \in TimesInputsSeq, dt \in Dates :
             AddMedicine(n, d, ti, dt)
    \/ WatchdogResting /\ \E id \in 1..MaxMedsSeq : DeleteMedicine(id)
    \/ WatchdogResting /\ StartScheduler
    \/ WatchdogResting /\ SaveOpen("ui")
    \/ WatchdogResting /\ SaveWrite("ui")
    \/ \E th \in {"ui", "wd"} : Alone(th) /\ SchedLoad(th)
    \/ \E th \in {"ui", "wd"} : Alone(th) /\ SchedClear(th)
    \/ \E th \in {"ui", "wd"} : Alone(th) /\ SchedStart(th)
    \/ \E th \in {"ui", "wd"} : Alone(th) /\ SchedAdd(th)
    \/ \E th \in {"ui", "wd"} : Alone(th) /\ Finish(th)

SpecSeq == Init /\ [][NextSeq]_vars

(***************************************************************************)
(* The ui's store mutations against the watchdog, nothing firing, with the *)
(* watchdog thread scheduled fairly: a live thread gets to run, and        *)
(* time_mod.sleep(60) ends.                                                *)
(***************************************************************************)
WatchdogStep ==
    \/ SchedLoad("wd")
    \/ SchedClear("wd")
    \/ SchedStart("wd")
    \/ SchedAdd("wd")
    \/ Finish("wd")

NextSweep ==
    \/ /\ nextId <= MaxMeds
       /\ \E n \in Names, d \in Doses, ti \in TimesInputs, dt \in Dates :
             AddMedicine(n, d, ti, dt)
    \/ \E id \in 1..MaxMeds : DeleteMedicine(id)
    \/ SaveOpen("ui")
    \/ SaveWrite("ui")
    \/ SchedLoad("ui")
    \/ SchedClear("ui")
    \/ SchedStart("ui")
    \/ SchedAdd("ui")
    \/ Finish("ui")
    \/ WatchdogStep

SpecSweep == Init /\ [][NextSweep]_vars /\ WF_vars(WatchdogStep)

\* the same with the "Start Scheduler" button
NextStart ==
    \/ NextSweep
    \/ StartScheduler

SpecStart == Init /\ [][NextStart]_vars /\ WF_vars(WatchdogStep)


(***************************************************************************)
(* The ui and the pool without the watchdog's sweeps (the watchdog never   *)
(* touches the store).                                                     *)
(***************************************************************************)
NextFire ==
    \/ /\ nextId <= MaxMeds
       /\ \E n \in Names, d \in Doses, ti \in TimesInputs, dt \in Dates :
             AddMedicine(n, d, ti, dt)
    \/ \E id \in 1..MaxMeds : DeleteMedicine(id)
    \/ TriggerNow
    \/ \E th \in Workers \cup {"ui"} : SaveOpen(th)
    \/ \E th \in Workers \cup {"ui"} : SaveWrite(th)
    \/ SchedLoad("ui")
    \/ SchedClear("ui")
    \/ SchedStart("ui")
    \/ SchedAdd("ui")
    \/ \E th \in Workers \cup {"ui"} : JobLoad(th)
    \/ \E th \in Workers \cup {"ui"}, ok \in BOOLEAN : JobSpeak(th, ok)
    \/ now < MaxTicks /\ Tick
    \/ \E w \in Workers : WorkerTake(w)
    \/ \E th \in Workers \cup {"ui"} : Finish(th)

SpecFire == Init /\ [][NextFire]_vars

(***************************************************************************)
(* Two medicines at the same time of day and a pool of two threads: the    *)
(* add form, the clock and the callbacks, without the watchdog's sweeps    *)
(* and without the other buttons.                                          *)
(***************************************************************************)
NextPair ==
    \/ /\ nextId <= MaxMedsSeq
       /\ \E n \in Names, d \in Doses, ti \in TimesInputsPair, dt \in Dates :
             AddMedicine(n, d, ti, dt)
    \/ \E th \in WorkersPair \cup {"ui"} : SaveOpen(th)
    \/ \E th \in WorkersPair \cup {"ui"} : SaveWrite(th)
    \/ SchedLoad("ui")
    \/ SchedClear("ui")
    \/ SchedStart("ui")
    \/ SchedAdd("ui")
    \/ \E w \in WorkersPair : JobLoad(w)
    \/ \E w \in WorkersPair, ok \in BOOLEAN : JobSpeak(w, ok)
    \/ now < MaxTicks /\ Tick
    \/ \E w \in WorkersPair : WorkerTake(w)
    \/ \E th \in WorkersPair \cup {"ui"} : Finish(th)

SpecPair == Init /\ [][NextPair]_vars

(***************************************************************************)
(* The script alone, one widget event after the other: the add form, the   *)
(* delete button and "Force Run Next Reminder Now"; no watchdog sweep and  *)
(* no scheduled firing in between.                                         *)
(***************************************************************************)
NextNow ==
    \/ /\ nextId <= MaxMedsSeq
       /\ \E n \in Names, d \in Doses, ti \in TimesInputsPair, dt \in Dates :
             AddMedicine(n, d, ti, dt)
    \/ \E id \in 1..MaxMedsSeq : DeleteMedicine(id)
    \/ TriggerNow
    \/ SaveOpen("ui")
    \/ SaveWrite("ui")
    \/ SchedLoad("ui")
    \/ SchedClear("ui")
    \/ SchedStart("ui")
    \/ SchedAdd("ui")
    \/ JobLoad("ui")
    \/ \E ok \in BOOLEAN : JobSpeak("ui", ok)
    \/ Finish("ui")

SpecNow == Init /\ [][NextNow]_vars

(***************************************************************************)
(* A medicine whose times list repeats a time: the add form, the clock and *)
(* one pool thread.                                                        *)
(***************************************************************************)
NextRepeat ==
    \/ /\ nextId <= MaxMeds
       /\ \E n \in Names, d \in Doses, ti \in TimesInputsRepeat, dt \in Dates :
             AddMedicine(n, d, ti, dt)
    \/ \E th \in Workers \cup {"ui"} : SaveOpen(th)
    \/ \E th \in Workers \cup {"ui"} : SaveWrite(th)
    \/ SchedLoad("ui")
    \/ SchedClear("ui")
    \/ SchedStart("ui")
    \/ SchedAdd("ui")
    \/ \E w \in Workers : JobLoad(w)
    \/ \E w \in Workers, ok \in BOOLEAN : JobSpeak(w, ok)
    \/ now < MaxTicks /\ Tick
    \/ \E w \in Workers : WorkerTake(w)
    \/ \E th \in Workers \cup {"ui"} : Finish(th)

SpecRepeat == Init /\ [][NextRepeat]_vars

(***************************************************************************)
(* One medicine over two days: the add form with its date window, the      *)
(* clock and one pool thread.                                              *)
(***************************************************************************)
NextDay ==
    \/ /\ nextId <= MaxMeds
       /\ \E n \in Names, d \in Doses, ti \in TimesInputsPair, dt \in DatesDay :
             AddMedicine(n, d, ti, dt)
    \/ \E th \in Workers \cup {"ui"} : SaveOpen(th)
    \/ \E th \in Workers \cup {"ui"} : SaveWrite(th)
    \/ SchedLoad("ui")
    \/ SchedClear("ui")
    \/ SchedStart("ui")
    \/ SchedAdd("ui")
    \/ \E w \in Workers : JobLoad(w)
    \/ \E w \in Workers, ok \in BOOLEAN : JobSpeak(w, ok)
    \/ now < MaxTicksDay /\ Tick
    \/ \E w \in Workers : WorkerTake(w)
    \/ \E th \in Workers \cup {"ui"} : Finish(th)

SpecDay == Init /\ [][NextDay]_vars


(***************************************************************************)
(* Properties.                                                             *)
(***************************************************************************)
Last(q) == q[Len(q)]
Firers == Workers \cup {"ui"}

\* C1: every firing adds exactly one entry after those already stored and
\* none is lost or duplicated: whenever the file is readable, the stored
\* history has one entry per firing whose job_func has returned.
C1_OneEntryPerFiring ==
    Readable(store) => Len(Hist(store)) = completed

\* what line 165 or lines 167-168 must have left in the entry
EntryRecords(e, outcome) ==
    /\ "audio" \in DOMAIN e
    /\ outcome = "ok" => e.audio = AudioPath(e.id) /\ "error" \notin DOMAIN e
    /\ outcome = "failed" =>
          /\ e.audio = None
          /\ "error" \in DOMAIN e
          /\ e.error = SpeakError

\* C2: whatever synthesize_tts does, job_func goes on to save_data without
\* raising, with an entry appended to its data that has the audio path and no
\* error field when Speak succeeded, and audio None and the failure's
\* description in `error` when Speak failed; and its save_data leaves that
\* entry last in the stored history as job_func returns.
C2_SpeakFailureRecorded ==
    [][\A th \in Firers :
          /\ (pc[th] = "job_speak" /\ pc'[th] # "job_speak") =>
                /\ pc'[th] = "save_open"
                /\ exc'[th] = "none"
                /\ speak'[th] \in {"ok", "failed"}
                /\ EntryRecords(entry'[th], speak'[th])
                /\ data'[th].history = Append(data[th].history, entry'[th])
          /\ (pc[th] = "save_write" /\ op[th] = "fire" /\ pc'[th] # "save_write") =>
                /\ pc'[th] = "return"
                /\ EntryRecords(entry[th], speak[th])
                /\ Hist(store') # << >>
                /\ Last(Hist(store')) = entry[th]]_vars

\* a firing whose Speak failed has returned, its entry last in the file
C2_Witness ==
    \E th \in Firers :
        /\ pc[th] = "return"
        /\ op[th] = "fire"
        /\ speak[th] = "failed"
        /\ Hist(store) # << >>
        /\ Last(Hist(store)) = entry[th]
        /\ entry[th].audio = None

\* C3: what the delete button is about to write (the file being readable) is
\* the file's medicines without exactly one medicine, and the file's history
\* as it stands now, entries appended since the ui's load included.
C3_DeleteKeepsHistory ==
    (pc["ui"] = "save_open" /\ op["ui"] = "delete" /\ Readable(store)) =>
        /\ data["ui"].history = load_data(store).history
        /\ \E id \in IdsOf(load_data(store).medicines) :
              data["ui"].medicines = Without(load_data(store).medicines, id)

\* C9: at most one thread at a time is between its load_data and the end of
\* its save_data.
InLoadMutateSave(th) == pc[th] \in {"job_speak", "save_open", "save_write"}

C9_Serialized ==
    Cardinality({th \in Threads : InLoadMutateSave(th)}) <= 1


\* the (medicine id, time) pairs of a list of medicines
StorePairs(meds) ==
    {job_id(Flatten(meds)[i][1], Flatten(meds)[i][2]) :
        i \in 1..Len(Flatten(meds))}

AllTimesValid(meds) ==
    \A i \in 1..Len(Flatten(meds)) : TimeValid(Flatten(meds)[i][2])

\* C4: when the add form or the delete button returns, the file still
\* holding what the ui last saw in it and every time in it valid, the
\* scheduler's job ids are the (medicine id, time) pairs of the file.
C4_ReconciledOnReturn ==
    ( /\ pc["ui"] = "return"
      /\ op["ui"] \in {"add", "delete"}
      /\ Readable(store)
      /\ load_data(store).medicines = data["ui"].medicines
      /\ AllTimesValid(data["ui"].medicines) )
    => DOMAIN jobs = StorePairs(data["ui"].medicines)

\* C5: every change of the job set is made by a reconciliation and leaves its
\* complete new set: no step leaves the set empty or partly filled.
C5_ReplaceAllAtomic ==
    [][jobs' # jobs =>
          \E th \in {"ui", "wd"} :
              /\ pc[th] \in {"sched_clear", "sched_add"}
              /\ DOMAIN jobs' = StorePairs(data[th].medicines)]_vars

\* the installed triggers of medicines now in the file whose time of day is
\* that of clock instant n
DueTriggers(n) ==
    {id \in installed :
        /\ TimeValid(id[2])
        /\ ParseTime(id[2]).hm = ClockHM(n)
        /\ \E i \in 1..Len(Meds(store)) :
              /\ Meds(store)[i].id = id[1]
              /\ \E j \in 1..Len(Meds(store)[i].times) :
                    Meds(store)[i].times[j] = id[2]}

\* C6: when the clock reaches a trigger's time of day, the trigger having
\* been installed and its medicine being in the file, its callback is run for
\* that occurrence (it is submitted to the pool now, one run per job id, or
\* is running).
C6_EveryOccurrenceFires ==
    [][now' # now =>
          \A id \in DueTriggers(now') : id \in PendingIds' \cup Running]_vars

\* C7: a reconciliation that met a malformed time has installed every time
\* of every medicine whose times are all valid.
C7_BadTimeIsolated ==
    \A th \in {"ui", "wd"} :
        (pc[th] = "except" /\ exc[th] = "ValueError") =>
            \A i \in 1..Len(data[th].medicines) :
                LET m == data[th].medicines[i]
                IN  (\A j \in 1..Len(m.times) : TimeValid(m.times[j])) =>
                        \A j \in 1..Len(m.times) :
                            job_id(m, m.times[j]) \in DOMAIN jobs

\* C8: the watchdog begins a sweep again and again for ever, whatever its
\* sweeps raise.
C8_WatchdogNeverExits == []<><<SchedLoad("wd")>>_vars

\* a sweep of the watchdog has failed at load_data and is in the handler
C8_Witness == pc["wd"] = "except" /\ exc["wd"] = "JSONDecodeError"

\* the job store schedule_all_jobs builds from nothing over a list of
\* iterations: add_job in order, up to the first malformed time
RECURSIVE Installs(_, _)
Installs(j, todo) ==
    IF todo = << >> THEN j
    ELSE IF ~TimeValid(Head(todo)[2]) THEN j
    ELSE Installs(add_job(j, Head(todo)[1], Head(todo)[2]), Tail(todo))

TriggersOf(meds) == Installs(NoJobs, Flatten(meds))

\* C10: a schedule_all_jobs call that has run to its end (or to the
\* ValueError of a malformed time) leaves the job store that the medicines it
\* loaded determine, keys and bound medicine data, whatever the store held
\* before the call: a second call on an unchanged file leaves what the first
\* one left.
C10_Idempotent ==
    \A th \in {"ui", "wd"} :
        ( \/ pc[th] = "return" /\ op[th] \in {"add", "start", "sweep"}
          \/ pc[th] = "except" /\ exc[th] = "ValueError" )
        => jobs = TriggersOf(data[th].medicines)

\* the watchdog's sweep has returned over the one medicine whose add form
\* already ran schedule_all_jobs on the same file
C10_Witness ==
    /\ pc["wd"] = "return"
    /\ nextId = 2
    /\ Len(data["wd"].medicines) = 1
    /\ load_data(store).medicines = data["wd"].medicines
    /\ jobs # NoJobs
    /\ jobs = TriggersOf(data["wd"].medicines)

\* the distinct entries of a medicine's times list
TimesOf(m) == {m.times[j] : j \in 1..Len(m.times)}

\* C11: a schedule_all_jobs call that returned over a single medicine M whose
\* N times are all valid leaves exactly the jobs keyed (M.id, t) for t in
\* M.times and no other key: one per distinct entry, which is N jobs when the
\* entries are pairwise distinct.
C11_OneTriggerPerDistinctTime ==
    \A th \in {"ui", "wd"} :
        ( /\ pc[th] = "return"
          /\ op[th] \in {"add", "start", "sweep"}
          /\ Len(data[th].medicines) = 1
          /\ AllTimesValid(data[th].medicines) )
        => LET M == data[th].medicines[1]
               N == Len(M.times)
           IN  /\ DOMAIN jobs = {<<M.id, t>> : t \in TimesOf(M)}
               /\ Cardinality(DOMAIN jobs) = Cardinality(TimesOf(M))
               /\ (\A i, j \in 1..N : i # j => M.times[i] # M.times[j])
                     => Cardinality(DOMAIN jobs) = N

\* the add form has returned over one medicine with the two distinct times
\* 08:00 and 09:00, and two jobs are installed
C11_Witness ==
    /\ pc["ui"] = "return"
    /\ op["ui"] = "add"
    /\ Len(data["ui"].medicines) = 1
    /\ data["ui"].medicines[1].times = <<T0800, T0900>>
    /\ Cardinality(DOMAIN jobs) = 2

\* the history entries of the file that record medicine id
EntriesOf(id) == {i \in 1..Len(Hist(store)) : Hist(store)[i].med_id = id}

\* C12: two medicines at the same time of day have two jobs, and when the
\* callbacks of the two jobs have both returned, in whatever order their
\* steps ran, the stored history holds the entry each of them appended: one
\* new entry per medicine.
C12_BothFiringsRecorded ==
    ( /\ \A w \in WorkersPair : pc[w] = "return" /\ op[w] = "fire"
      /\ run["w1"].func.med.id # run["w2"].func.med.id
      /\ Readable(store) )
    => /\ run["w1"].id \in DOMAIN jobs /\ run["w2"].id \in DOMAIN jobs
       /\ \A w \in WorkersPair :
             /\ \E i \in 1..Len(Hist(store)) : Hist(store)[i] = entry[w]
             /\ Cardinality(EntriesOf(run[w].func.med.id)) = 1

\* C13: whichever stored medicine the caller asks for, "Force Run" can fire
\* that medicine; the firing appends exactly one entry, with that medicine's
\* id, to the stored history and leaves the stored medicines and the job store
\* as they were; with no medicine stored it changes nothing.
C13_TriggerNowFiresRequested ==
    [][/\ \A medicineId \in IdsOf(Meds(store)) :
             (pc["ui"] = "idle" /\ nextEntry <= MaxFirings) =>
                 ENABLED (TriggerNow /\ run'["ui"].func.med.id = medicineId)
       /\ (pc["ui"] = "idle" /\ pc'["ui"] = "return" /\ op'["ui"] = "fire") =>
             /\ Meds(store) = << >>
             /\ store' = store
             /\ jobs' = jobs
       /\ (op["ui"] = "fire" /\ pc["ui"] = "job_speak") =>
             /\ entry'["ui"].med_id = run["ui"].func.med.id
             /\ data'["ui"].medicines = Meds(store)
             /\ data'["ui"].history = Append(Hist(store), entry'["ui"])
       /\ (op["ui"] = "fire" /\ pc["ui"] = "save_write") =>
             /\ store' = save_data(data["ui"])
             /\ jobs' = jobs]_vars

\* the time the loops of schedule_all_jobs are at in thread th
CurrentTime(th) == Flatten(data[th].medicines)[k[th]][2]

\* C14: when the schedule_all_jobs called by the add form cannot load the
\* file or meets a malformed time, the add form ends with that exception
\* (JSONDecodeError, ValueError) and not with a return; when the same happens
\* in a sweep, the exception ends in the watchdog's handler: the thread goes
\* on to its next sweep with no exception left.
C14_DirectFailureSurfaced ==
    [][/\ ( /\ op["ui"] = "add"
            /\ pc["ui"] = "sched_load"
            /\ pc'["ui"] # "sched_load"
            /\ ~Readable(store) )
          => pc'["ui"] = "except" /\ exc'["ui"] = "JSONDecodeError"
       /\ ( /\ op["ui"] = "add"
            /\ pc["ui"] = "sched_add"
            /\ (pc'["ui"] # "sched_add" \/ k'["ui"] # k["ui"])
            /\ ~TimeValid(CurrentTime("ui")) )
          => pc'["ui"] = "except" /\ exc'["ui"] = "ValueError"
       /\ (pc'["ui"] = "return" /\ op'["ui"] = "add") => exc'["ui"] = "none"
       /\ ( /\ pc["wd"] \in {"sched_load", "sched_add"}
            /\ (pc'["wd"] # pc["wd"] \/ k'["wd"] # k["wd"])
            /\ \/ pc["wd"] = "sched_load" /\ ~Readable(store)
               \/ pc["wd"] = "sched_add" /\ ~TimeValid(CurrentTime("wd")) )
          => pc'["wd"] = "except"
       /\ (pc["wd"] = "except" /\ pc'["wd"] # "except")
          => pc'["wd"] = "sched_load" /\ exc'["wd"] = "none"]_vars

\* the add form has ended with the ValueError of "25:99" while a sweep that
\* met the same time is in the watchdog's handler
C14_Witness ==
    /\ pc["ui"] = "except"
    /\ op["ui"] = "add"
    /\ exc["ui"] = "ValueError"
    /\ pc["wd"] = "except"
    /\ exc["wd"] = "ValueError"

\* no store mutation is under way and every stored time is valid
StoreQuiet ==
    /\ pc["ui"] = "idle"
    /\ Readable(store)
    /\ AllTimesValid(Meds(store))

\* the job ids are the (medicine id, time) pairs of the stored medicines
JobsMatchStore == DOMAIN jobs = StorePairs(Meds(store))

\* C15: if from some time on the ui mutates nothing more and every stored
\* time is valid, then from some time on the job ids are, for ever, exactly
\* the (medicine id, time) pairs of the stored medicines.
C15_Converges == <>[]StoreQuiet => <>[]JobsMatchStore

C17_RepeatedTimeFiresOnce ==
    [][/\ \A a, b \in DOMAIN jobs' :
             (a[1] = b[1] /\ jobs'[a].trigger = jobs'[b].trigger) => a = b
       /\ now' # now =>
             \A p, q \in pending' \ pending :
                 p.func.med.id = q.func.med.id => p = q]_vars

\* the medicines of a list, as a set
MedsIn(meds) == {meds[i] : i \in 1..Len(meds)}

\* C18: a job is bound to a medicine of the data its schedule_all_jobs
\* loaded, the timing thread submits that binding, "Force Run" binds the
\* first stored medicine, and the entry a firing builds has the id and the
\* name of the medicine bound to it, whether or not the file still holds
\* that medicine at fire time.
C18_EntryRecordsBoundMedicine ==
    [][/\ \A id \in DOMAIN jobs' :
             (id \notin DOMAIN jobs \/ jobs'[id] # jobs[id]) =>
                 \E th \in {"ui", "wd"} :
                     /\ pc[th] = "sched_add"
                     /\ jobs'[id].func.med \in MedsIn(data[th].medicines)
                     /\ jobs'[id].func.med.id = id[1]
       /\ \A p \in pending' \ pending : p.func = jobs[p.id].func
       /\ \A w \in Workers :
             (pc[w] = "free" /\ pc'[w] = "job_load") => run'[w] \in pending
       /\ (pc["ui"] = "idle" /\ pc'["ui"] = "job_load") =>
             run'["ui"].func.med = Head(Meds(store))
       /\ \A th \in Firers :
             (pc[th] = "job_load" /\ pc'[th] = "job_speak") =>
                 /\ entry'[th].med_id = run[th].func.med.id
                 /\ entry'[th].med_name = run[th].func.med.name]_vars

\* a scheduled firing has returned and its entry is last in the file, for a
\* medicine the file no longer holds
C18_Witness ==
    \E w \in Workers :
        /\ pc[w] = "return"
        /\ op[w] = "fire"
        /\ Readable(store)
        /\ entry[w].med_id \notin IdsOf(Meds(store))
        /\ Hist(store) # << >>
        /\ Last(Hist(store)).med_id = entry[w].med_id
        /\ Last(Hist(store)).med_name = run[w].func.med.name

\* a list of medicines with every start and end date replaced
RECURSIVE Redated(_, _)
Redated(meds, dates) ==
    IF meds = << >> THEN << >>
    ELSE <<[Head(meds) EXCEPT !.start_date = dates[1], !.end_date = dates[2]]>>
             \o Redated(Tail(meds), dates)

=============================================================================
